---- MODULE Spec2Model ----
(***************************************************************************)
(* A model of arya_api_framework's asynchronous client: the request        *)
(* dispatcher AsyncClient.request, its convenience wrappers, close(), the  *)
(* rate limiter it awaits, the status-code-to-exception table of errors.py, *)
(* the configuration merge, construction through ClientInit.__call__ and   *)
(* chunk_file_reader.                                                      *)
(*                                                                         *)
(* Coroutines run on one event loop: an action is the code between two     *)
(* suspension points (await limiter.acquire(), the network call, await     *)
(* session.close()).                                                       *)
(***************************************************************************)
EXTENDS Integers, Sequences, FiniteSets, TLC

\* ------------------------------------------------------------------ bounds
\* Number of coroutines that call the client concurrently.
NumCoroutines == 2
\* Largest rate_limit (requests per interval) a client is configured with.
MaxRate == 1
\* Longest JSON array a response body holds.
MaxItems == 2
\* Most full chunks a streamed file holds.
MaxChunks == 2
\* Most bytes a streamed file is longer, or shorter, than a whole number of
\* chunks.
MaxTail == 4
\* Most times an exhausted generator is asked for another chunk.
MaxStops == 2
\* longest call path given to a request in SpecPath
MaxPathLen == 2
\* most RateLimitExceptions the wrapped function raises in a row
MaxRaises == 3
\* longest period_remaining, in seconds, of a RateLimitException
MaxPeriod == 3
\* longest list of types given to validate_type as target
MaxTargets == 2

\* ------------------------------------------------------- program constants
\* HTTPError.status_code defaults to None; None is written 0 here.
NoStatusCode == 0
\* f.read(64 * 1024)
ChunkSize == 65536

\* ------------------------------------------------------------- data domains
Coroutines == 1..NumCoroutines

\* Keys of header, cookie and query-parameter mappings.
Keys == {"a", "b"}
Vals == {1, 2, 3}
Maps == UNION {[K -> Vals] : K \in SUBSET Keys}
EmptyMap == [k \in {} |-> 0]

\* Client-level defaults: a |-> 1 and b |-> 2 where present.
DefaultVal == [k \in Keys |-> IF k = "a" THEN 1 ELSE 2]
DefaultMaps == {m \in Maps : \A k \in DOMAIN m : m[k] = DefaultVal[k]}
\* Per-call overrides carry the value 3, which no default has.
OverrideMaps == {m \in Maps : \A k \in DOMAIN m : m[k] = 3}

\* An optional argument is the empty set (None) or a singleton.
None == {}
Some(x) == {x}
Unwrap(opt) == CHOOSE x \in opt : TRUE
Optional(S) == {None} \cup {Some(x) : x \in S}

\* Paths are sequences of characters.
Slash == "/"

\* JSON documents: an object is identified by id and either fits the schemas
\* in use (pydantic validation succeeds) or does not; a document is one object
\* or an array of objects.
Objects == [id : {1}, fits : BOOLEAN]
SeqsUpTo(S, n) == UNION {[1..k -> S] : k \in 0..n}
JsonDocs == [array : {FALSE}, items : [1..1 -> Objects]]
              \cup [array : {TRUE}, items : SeqsUpTo(Objects, MaxItems)]
NullJson == [array |-> FALSE, items |-> <<>>]
\* A response body on the wire: its text, and what json.loads makes of it.
Bodies == [valid : {TRUE}, text : {"json-text"}, json : JsonDocs]
            \cup [valid : {FALSE}, text : {"<html>"}, json : {NullJson}]

\* Response and error schemas (pydantic model classes).
ResponseSchemas == {"MyResponse"}
StatusCodes == 200..599
ErrorTables == {EmptyMap, [c \in {404} |-> "ClientNotFound"]}
CallErrorTables == {EmptyMap, [c \in {404} |-> "CallNotFound"],
                    [c \in {500} |-> "CallServerError"]}

\* ------------------------------------------------------------- errors.py
\* The exception classes of errors.py: name, base class, status_code attribute.
HTTPClasses ==
  { [name |-> "HTTPError", base |-> "FrameworkException", status_code |-> NoStatusCode],
    [name |-> "HTTPRedirect", base |-> "HTTPError", status_code |-> NoStatusCode],
    [name |-> "HTTPClientError", base |-> "HTTPError", status_code |-> NoStatusCode],
    [name |-> "HTTPServerError", base |-> "HTTPError", status_code |-> NoStatusCode],
    [name |-> "HTTPMultipleChoices", base |-> "HTTPRedirect", status_code |-> 300],
    [name |-> "HTTPMovedPermanently", base |-> "HTTPRedirect", status_code |-> 301],
    [name |-> "HTTPFound", base |-> "HTTPRedirect", status_code |-> 302],
    [name |-> "HTTPSeeOther", base |-> "HTTPRedirect", status_code |-> 303],
    [name |-> "HTTPNotModified", base |-> "HTTPRedirect", status_code |-> 304],
    [name |-> "HTTPUseProxy", base |-> "HTTPRedirect", status_code |-> 305],
    [name |-> "HTTPReserved", base |-> "HTTPRedirect", status_code |-> 306],
    [name |-> "HTTPTemporaryRedirect", base |-> "HTTPRedirect", status_code |-> 307],
    [name |-> "HTTPPermanentRedirect", base |-> "HTTPRedirect", status_code |-> 308],
    [name |-> "HTTPBadRequest", base |-> "HTTPClientError", status_code |-> 400],
    [name |-> "HTTPUnauthorized", base |-> "HTTPClientError", status_code |-> 401],
    [name |-> "HTTPPaymentRequired", base |-> "HTTPClientError", status_code |-> 402],
    [name |-> "HTTPForbidden", base |-> "HTTPClientError", status_code |-> 403],
    [name |-> "HTTPNotFound", base |-> "HTTPClientError", status_code |-> 404],
    [name |-> "HTTPMethodNotAllowed", base |-> "HTTPClientError", status_code |-> 405],
    [name |-> "HTTPNotAcceptable", base |-> "HTTPClientError", status_code |-> 406],
    [name |-> "HTTPProxyAuthenticationRequired", base |-> "HTTPClientError", status_code |-> 407],
    [name |-> "HTTPRequestTimeout", base |-> "HTTPClientError", status_code |-> 408],
    [name |-> "HTTPConflict", base |-> "HTTPClientError", status_code |-> 409],
    [name |-> "HTTPGone", base |-> "HTTPClientError", status_code |-> 410],
    [name |-> "HTTPLengthRequired", base |-> "HTTPClientError", status_code |-> 411],
    [name |-> "HTTPPreconditionFailed", base |-> "HTTPClientError", status_code |-> 412],
    [name |-> "HTTPRequestEntityTooLarge", base |-> "HTTPClientError", status_code |-> 413],
    [name |-> "HTTPRequestUriTooLong", base |-> "HTTPClientError", status_code |-> 414],
    [name |-> "HTTPUnsupportedMediaType", base |-> "HTTPClientError", status_code |-> 415],
    [name |-> "HTTPRequestedRangeNotSatisfiable", base |-> "HTTPClientError", status_code |-> 416],
    [name |-> "HTTPExpectationFailed", base |-> "HTTPClientError", status_code |-> 417],
    [name |-> "HTTPImATeapot", base |-> "HTTPClientError", status_code |-> 418],
    [name |-> "HTTPMisdirectedRequest", base |-> "HTTPClientError", status_code |-> 421],
    [name |-> "HTTPUnprocessableEntity", base |-> "HTTPClientError", status_code |-> 422],
    [name |-> "HTTPLocked", base |-> "HTTPClientError", status_code |-> 423],
    [name |-> "HTTPFailedDependency", base |-> "HTTPClientError", status_code |-> 424],
    [name |-> "HTTPTooEarly", base |-> "HTTPClientError", status_code |-> 425],
    [name |-> "HTTPUpgradeRequired", base |-> "HTTPClientError", status_code |-> 426],
    [name |-> "HTTPPreconditionRequired", base |-> "HTTPClientError", status_code |-> 428],
    [name |-> "HTTPTooManyRequests", base |-> "HTTPClientError", status_code |-> 429],
    [name |-> "HTTPRequestHeaderFieldsTooLarge", base |-> "HTTPClientError", status_code |-> 431],
    [name |-> "HTTPUnavailableForLegalReasons", base |-> "HTTPClientError", status_code |-> 451],
    [name |-> "HTTPInternalServerError", base |-> "HTTPServerError", status_code |-> 500],
    [name |-> "HTTPNotImplemented", base |-> "HTTPServerError", status_code |-> 501],
    [name |-> "HTTPBadGateway", base |-> "HTTPServerError", status_code |-> 502],
    [name |-> "HTTPServiceUnavailable", base |-> "HTTPServerError", status_code |-> 503],
    [name |-> "HTTPGatewayTimeout", base |-> "HTTPServerError", status_code |-> 504],
    [name |-> "HTTPHttpServerVersionNotSupported", base |-> "HTTPServerError", status_code |-> 505],
    [name |-> "HTTPVariantAlsoNegotiates", base |-> "HTTPServerError", status_code |-> 506],
    [name |-> "HTTPInsufficientStorage", base |-> "HTTPServerError", status_code |-> 507],
    [name |-> "HTTPLoopDetected", base |-> "HTTPServerError", status_code |-> 508],
    [name |-> "HTTPNotExtended", base |-> "HTTPServerError", status_code |-> 510],
    [name |-> "HTTPNetworkAuthenticationRequired", base |-> "HTTPServerError", status_code |-> 511] }

ERROR_RESPONSE_MAPPING ==
  (300 :> "HTTPMultipleChoices") @@
  (301 :> "HTTPMovedPermanently") @@
  (302 :> "HTTPFound") @@
  (303 :> "HTTPSeeOther") @@
  (304 :> "HTTPNotModified") @@
  (305 :> "HTTPUseProxy") @@
  (306 :> "HTTPReserved") @@
  (307 :> "HTTPTemporaryRedirect") @@
  (308 :> "HTTPPermanentRedirect") @@
  (400 :> "HTTPBadRequest") @@
  (401 :> "HTTPUnauthorized") @@
  (402 :> "HTTPPaymentRequired") @@
  (403 :> "HTTPForbidden") @@
  (404 :> "HTTPNotFound") @@
  (405 :> "HTTPMethodNotAllowed") @@
  (406 :> "HTTPNotAcceptable") @@
  (407 :> "HTTPProxyAuthenticationRequired") @@
  (408 :> "HTTPRequestTimeout") @@
  (409 :> "HTTPConflict") @@
  (410 :> "HTTPGone") @@
  (411 :> "HTTPLengthRequired") @@
  (412 :> "HTTPPreconditionFailed") @@
  (413 :> "HTTPRequestEntityTooLarge") @@
  (414 :> "HTTPRequestUriTooLong") @@
  (415 :> "HTTPUnsupportedMediaType") @@
  (416 :> "HTTPRequestedRangeNotSatisfiable") @@
  (417 :> "HTTPExpectationFailed") @@
  (418 :> "HTTPImATeapot") @@
  (421 :> "HTTPMisdirectedRequest") @@
  (422 :> "HTTPUnprocessableEntity") @@
  (423 :> "HTTPLocked") @@
  (424 :> "HTTPFailedDependency") @@
  (425 :> "HTTPTooEarly") @@
  (426 :> "HTTPUpgradeRequired") @@
  (428 :> "HTTPPreconditionRequired") @@
  (429 :> "HTTPTooManyRequests") @@
  (431 :> "HTTPRequestHeaderFieldsTooLarge") @@
  (451 :> "HTTPUnavailableForLegalReasons") @@
  (500 :> "HTTPInternalServerError") @@
  (501 :> "HTTPNotImplemented") @@
  (502 :> "HTTPBadGateway") @@
  (503 :> "HTTPServiceUnavailable") @@
  (504 :> "HTTPGatewayTimeout") @@
  (505 :> "HTTPHttpServerVersionNotSupported") @@
  (506 :> "HTTPVariantAlsoNegotiates") @@
  (507 :> "HTTPInsufficientStorage") @@
  (508 :> "HTTPLoopDetected") @@
  (510 :> "HTTPNotExtended") @@
  (511 :> "HTTPNetworkAuthenticationRequired")

ClassNamed(cls) == CHOOSE c \in HTTPClasses : c.name = cls
\* The class attribute status_code an instance of cls reads: HTTPError.__init__
\* assigns response only.
StatusCodeOf(cls) == ClassNamed(cls).status_code
\* issubclass(cls, family): the class statements nest at most two deep below
\* HTTPError.
IsSubclass(cls, family) ==
  \/ cls = family
  \/ ClassNamed(cls).base = family
  \/ /\ ClassNamed(cls).base \in {c.name : c \in HTTPClasses}
     /\ ClassNamed(ClassNamed(cls).base).base = family

\* ERROR_RESPONSE_MAPPING.get(response.status, HTTPError)
ErrorClassForHundreds(status) ==
  IF (status \div 100) * 100 \in DOMAIN ERROR_RESPONSE_MAPPING
    THEN ERROR_RESPONSE_MAPPING[(status \div 100) * 100]
    ELSE "HTTPError"
ErrorClassFor(status) ==
  IF status \in DOMAIN ERROR_RESPONSE_MAPPING
    THEN ERROR_RESPONSE_MAPPING[status]
    ELSE "HTTPError"

\* --------------------------------------------------------------- utils
\* flatten_obj: a mapping is kept, None becomes the empty mapping.
flatten_obj(obj) == IF obj = None THEN EmptyMap ELSE Unwrap(obj)

\* merge_dicts: keys of the update replace those of the base.
merge_dicts(base_dict, update_dict) ==
  LET b == flatten_obj(base_dict)
      u == flatten_obj(update_dict)
  IN  [k \in DOMAIN b \cup DOMAIN u |-> IF k \in DOMAIN u THEN u[k] ELSE b[k]]

\* ------------------------------------------------- AsyncClient.request parts
\* if path and not path.startswith('/'): path = f'/{path}'
NormalisePathNever(path) == path
NormalisePath(path) ==
  IF path # <<>> /\ Head(path) # Slash THEN <<Slash>> \o path ELSE path

\* path = self.uri_path + path if self.uri_path and path else self.uri_path
\*        if self.uri_path else path if path else ''
FullPath(uri_path, path) ==
  IF uri_path # <<>> /\ path # <<>> THEN uri_path \o path
  ELSE IF uri_path # <<>> THEN uri_path
  ELSE IF path # <<>> THEN path
  ELSE <<>>

\* headers = flatten_obj(headers)
RequestHeaders(call_headers) == flatten_obj(call_headers)
\* cookies = flatten_obj(cookies)
RequestCookies(call_cookies) == flatten_obj(call_cookies)
\* parameters = merge_dicts(self.parameters, parameters)
RequestParametersSwapped(self_parameters, call_parameters) ==
  merge_dicts(call_parameters, Some(self_parameters))
RequestParametersOverrideOnly(self_parameters, call_parameters) ==
  flatten_obj(call_parameters)
RequestParameters(self_parameters, call_parameters) ==
  merge_dicts(Some(self_parameters), call_parameters)

\* error_responses = error_responses or self.error_responses or {}
\* (an empty per-call table is falsy, like None)
EffectiveErrorResponses(self_error_responses, call_error_responses) ==
  IF call_error_responses # None /\ Unwrap(call_error_responses) # EmptyMap
    THEN Unwrap(call_error_responses)
    ELSE self_error_responses

\* _update_session_headers: the session's default headers are a copy of the
\* client's headers.
SessionDefaultHeadersDropped(client_headers) == EmptyMap
SessionDefaultHeaders(client_headers) == client_headers
\* _update_session_cookies: the client's cookies are put into the session's
\* cookie jar.
SessionCookieJar(jar, client_cookies) ==
  [k \in DOMAIN jar \cup DOMAIN client_cookies |->
     IF k \in DOMAIN client_cookies THEN client_cookies[k] ELSE jar[k]]

\* self._session.request(...): the session lays the call's headers over its
\* default headers and the call's cookies over those of its cookie jar; the
\* query parameters are sent as given, the timeout as ClientTimeout(total=...).
SessionSend(sess, method, path, call_headers, call_cookies, params, body, data, timeout) ==
  [method  |-> method,
   path    |-> path,
   headers |-> [k \in DOMAIN sess.default_headers \cup DOMAIN call_headers |->
                  IF k \in DOMAIN call_headers THEN call_headers[k]
                  ELSE sess.default_headers[k]],
   cookies |-> [k \in DOMAIN sess.cookie_jar \cup DOMAIN call_cookies |->
                  IF k \in DOMAIN call_cookies THEN call_cookies[k]
                  ELSE sess.cookie_jar[k]],
   params  |-> params,
   json    |-> body,
   data    |-> data,
   timeout |-> timeout]

\* response.ok: true for every status below 400.
ResponseOk(status) == status < 400

\* ------------------------------------------------------------- outcomes
\* What an operation hands back to its caller: nothing yet, a returned value
\* or a raised exception.
\* request_base_ is the field class Response declares (None by default,
\* written <<>>); _request_base is the attribute lines 338 and 343 assign.
NoPayload == [form |-> "none", schema |-> "", array |-> FALSE, items |-> <<>>,
              request_base_ |-> <<>>, _request_base |-> <<>>, text |-> ""]
RawPayload(doc) == [NoPayload EXCEPT !.form = "raw", !.array = doc.array,
                                     !.items = doc.items]
\* parse_obj_as(model, data): one schema object for each object of the
\* document, each with its _request_base attribute set to url where the code
\* assigns it.
ModelPayload(model, doc, url) ==
  [NoPayload EXCEPT !.form = "model", !.schema = model, !.array = doc.array,
                    !.items = doc.items, !._request_base = url]
TextPayload(text) == [NoPayload EXCEPT !.form = "text", !.text = text]

Pending == [kind |-> "pending", class |-> "", status_code |-> NoStatusCode,
            payload |-> NoPayload]
Return(payload) == [Pending EXCEPT !.kind = "return", !.payload = payload]
ReturnNone == Return(NoPayload)
Raise(cls, code, payload) ==
  [kind |-> "raise", class |-> cls, status_code |-> code, payload |-> payload]

\* pydantic accepts a document when every object of it fits the schema.
Validates(doc) == \A i \in DOMAIN doc.items : doc.items[i].fits

\* Lines 327-346: the response of a status that response.ok accepts.
\* obj._request_base = ... names no field of the schema: a pydantic model
\* either refuses the assignment (ValueError) or keeps it as a plain
\* attribute, depending on the pydantic in use and the schema's Config
\* (setattr_raises).  The objects of an array are parsed and assigned one
\* after the other; an empty array assigns nothing.
HandleOk(body, response_format, url, setattr_raises) ==
  IF ~body.valid
    THEN Raise("ResponseParseError", NoStatusCode, TextPayload(body.text))
  ELSE IF response_format # None
    THEN IF body.json.items = <<>>
           THEN Return(ModelPayload(Unwrap(response_format), body.json, <<>>))
         ELSE IF ~body.json.items[1].fits
           THEN Raise("ValidationError", NoStatusCode, NoPayload)
         ELSE IF setattr_raises
           THEN Raise("ValueError", NoStatusCode, NoPayload)
         ELSE IF ~Validates(body.json)
           THEN Raise("ValidationError", NoStatusCode, NoPayload)
         ELSE Return(ModelPayload(Unwrap(response_format), body.json, url))
  ELSE Return(RawPayload(body.json))

\* Lines 348-360: the response of any other status.
HandleErrorUnparsed(status, body, error_responses) ==
  Raise(ErrorClassFor(status), StatusCodeOf(ErrorClassFor(status)),
        IF body.valid THEN RawPayload(body.json) ELSE TextPayload(body.text))
HandleError(status, body, error_responses) ==
  LET error_class == ErrorClassFor(status)
      has_model == status \in DOMAIN error_responses
  IN  IF ~body.valid
        THEN Raise("ResponseParseError", NoStatusCode, TextPayload(body.text))
      ELSE IF has_model
        THEN IF Validates(body.json)
               THEN Raise(error_class, StatusCodeOf(error_class),
                          ModelPayload(error_responses[status], body.json, <<>>))
               ELSE Raise("ValidationError", NoStatusCode, NoPayload)
      ELSE Raise(error_class, StatusCodeOf(error_class), RawPayload(body.json))

\* The body of "async with self._session.request(...) as response".
HandleResponse(status, body, response_format, error_responses, url, setattr_raises) ==
  IF ResponseOk(status)
    THEN HandleOk(body, response_format, url, setattr_raises)
    ELSE HandleError(status, body, error_responses)

\* ------------------------------------------------------------------ state
VARIABLES
  init,              \* construction: "unbuilt", "built" or "failed"
  uri,               \* the uri the client was given, MISSING when none
  uri_path,          \* the path part of the client's uri
  headers,           \* client default headers
  cookies,           \* client default cookies
  parameters,        \* client default query parameters
  error_responses,   \* client table: status code -> error schema
  rate_limit,        \* requests per interval, 0 when none is set
  limiter,           \* the AsyncLimiter: installed, max_rate, level
  is_rate_limited,   \* _rate_limited
  _closed,           \* set once close() has closed the session
  _session,          \* the aiohttp ClientSession
  pc,                \* where each coroutine is suspended
  frame,             \* each coroutine's current (or last) operation
  outcome,           \* what that operation handed back
  reader,            \* the generator chunk_file_reader(file) made last
  written,           \* keys assigned into client.parameters since construction
  retry,             \* a call of a function wrapped by sleep_and_retry
  model_call,        \* a call of BaseModel.dict, json or copy
  validation         \* a call of validate_type

\* The closed property of the client.
closed == _closed

vars == <<init, uri, uri_path, headers, cookies, parameters, error_responses,
          rate_limit, limiter, is_rate_limited, _closed, _session, pc, frame,
          outcome, reader, written, retry, model_call, validation>>
utils == <<retry, model_call, validation>>
client == <<init, uri, uri_path, headers, cookies, parameters, error_responses,
            rate_limit, is_rate_limited>>

\* errors.MISSING, the value ClientInit.__call__ passes for a keyword the
\* caller left out.
MISSING == None

\* A file is its length in bytes, and a chunk the bytes of the file from
\* offset from up to from + len: reading in 'rb' mode hands the bytes on as
\* they are.
NoReader == [state |-> "none", file |-> 0, pos |-> 0, yielded |-> <<>>,
             stops |-> 0]

\* No wrapped function, model method or validate_type has been called.
NoRetry == [state |-> "none", history |-> <<>>, slept |-> <<>>,
            result |-> [kind |-> "none"]]
NoModelCall == [state |-> "none"]
NoValidation == [state |-> "none"]

NoCall == [method |-> "", path |-> <<>>, headers |-> EmptyMap,
           cookies |-> EmptyMap, params |-> EmptyMap, json |-> None,
           data |-> "none", timeout |-> 0]
NoResponse == [status |-> 0, body |-> [valid |-> FALSE, text |-> "", json |-> NullJson]]
NoArgs == [method |-> "", path |-> <<>>, body |-> None, data |-> "none",
           headers |-> None, cookies |-> None, parameters |-> None,
           response_format |-> None, timeout |-> 300, error_responses |-> None]

\* A coroutine's operation: its name, the arguments request() received, and
\* what has happened in this invocation so far.
NoFrame == [op |-> "",
            given |-> NoArgs,           \* what the caller passed to op
            args |-> NoArgs,            \* what request() works with
            started_closed |-> FALSE,   \* was close() complete when it began
            file_opened |-> FALSE,      \* did the wrapper open a file handle
            trace |-> <<>>,             \* __init__ and __post_init__ calls made
            acquired |-> 0,             \* completed limiter acquisitions
            calls |-> 0,                \* session.request invocations
            session_at_call |-> "",     \* the session's state at that call
            sent |-> NoCall,            \* what the session sent
            table |-> EmptyMap,         \* error table in effect
            response |-> NoResponse,
            setattr_raises |-> FALSE,   \* did the schema refuse _request_base
            written_before |-> EmptyMap] \* keys written before this call

\* The options a caller passes to an operation.
Options(Methods, Paths, Hs, Cs, Ps, Fs, Es) ==
  [method : Methods, path : Paths, body : {None}, data : {"none"},
   headers : Hs, cookies : Cs, parameters : Ps, response_format : Fs,
   timeout : {300}, error_responses : Es]

\* _init_rate_limit
InitRateLimitAlways(rate) ==
  [installed |-> TRUE, max_rate |-> rate, level |-> 0]
InitRateLimit(rate) ==
  [installed |-> rate # 0, max_rate |-> rate, level |-> 0]

\* AsyncLimiter.has_capacity()
HasCapacity == limiter.level + 1 <= limiter.max_rate

\* The client as its construction leaves it: the configuration given to the
\* class, _init_rate_limit, and a session holding the default headers and
\* cookies (_update_session_headers, _update_session_cookies).
Constructed(up, h, c, ps, e, rate) ==
  /\ init = "built"
  /\ uri = Some(up)
  /\ uri_path = up
  /\ headers = h
  /\ cookies = c
  /\ parameters = ps
  /\ error_responses = e
  /\ rate_limit = rate
  /\ limiter = InitRateLimit(rate)
  /\ is_rate_limited = (rate # 0)
  /\ _closed = FALSE
  /\ _session = [state |-> "open",
                default_headers |-> SessionDefaultHeaders(h),
                cookie_jar |-> SessionCookieJar(EmptyMap, c),
                close_calls |-> 0]
  /\ pc = [p \in Coroutines |-> "idle"]
  /\ frame = [p \in Coroutines |-> NoFrame]
  /\ outcome = [p \in Coroutines |-> Pending]
  /\ reader = NoReader
  /\ written = EmptyMap
  /\ retry = NoRetry
  /\ model_call = NoModelCall
  /\ validation = NoValidation

\* ------------------------------------------------------------ construction
\* kwargs.get(name, MISSING): a keyword the caller left out is None in the
\* record kwargs.
KwargsGetOrRoot(kwargs, name) ==
  IF name = "uri" /\ kwargs[name] = None THEN Some(<<>>) ELSE kwargs[name]
KwargsGet(kwargs, name) ==
  IF kwargs[name] = None THEN MISSING ELSE kwargs[name]

\* The value a configuration attribute takes from a keyword, its class
\* default when the keyword is MISSING.
OrDefault(kw, default) == IF kw = MISSING THEN default ELSE Unwrap(kw)

\* The eight keywords type.__call__ hands to the class's __init__.
ConfigOptions ==
  {"uri", "headers", "cookies", "parameters", "error_responses",
   "bearer_token", "rate_limit", "rate_limit_interval"}
ConstructorKwargs(kwargs) == [n \in ConfigOptions |-> KwargsGet(kwargs, n)]
\* type.__call__(cls, uri=uri, ...) is given no positional argument.
ConstructorArgs(args) == <<>>

InitCall(args, kwargs) == [fn |-> "__init__", args |-> args, kwargs |-> kwargs]
PostInitCall(args, kwargs) == [fn |-> "__post_init__", args |-> args, kwargs |-> kwargs]

\* The class before it is called: no client object exists.
Unbuilt ==
  /\ init = "unbuilt"
  /\ uri = MISSING
  /\ uri_path = <<>>
  /\ headers = EmptyMap
  /\ cookies = EmptyMap
  /\ parameters = EmptyMap
  /\ error_responses = EmptyMap
  /\ rate_limit = 0
  /\ limiter = InitRateLimit(0)
  /\ is_rate_limited = FALSE
  /\ _closed = FALSE
  /\ _session = [state |-> "none", default_headers |-> EmptyMap,
                cookie_jar |-> EmptyMap, close_calls |-> 0]
  /\ pc = [p \in Coroutines |-> "idle"]
  /\ frame = [p \in Coroutines |-> NoFrame]
  /\ outcome = [p \in Coroutines |-> Pending]
  /\ reader = NoReader
  /\ written = EmptyMap
  /\ retry = NoRetry
  /\ model_call = NoModelCall
  /\ validation = NoValidation

\* The uri a client gets: the keyword of the call, else the keyword of the
\* class statement (class MyClient(AsyncClient, uri=...)), else MISSING.
EffectiveUri(cls, uri_kw) == IF uri_kw # MISSING THEN uri_kw ELSE cls.uri

\* ClientInit.__call__(cls, *args, **kwargs), called by coroutine p: the
\* keywords are read with MISSING for those left out and handed to the
\* class's __init__, which raises ClientError when neither they nor the class
\* give a uri and otherwise sets the client up; __post_init__, if the object
\* has one, is then called with the arguments of the call.
ClientInit__call__(p, Classes, Args, Kwargs) ==
  /\ init = "unbuilt"
  /\ \E cls \in Classes, args \in Args, kwargs \in Kwargs :
       LET ctor == InitCall(ConstructorArgs(args), ConstructorKwargs(kwargs))
           uri_kw == EffectiveUri(cls, ctor.kwargs.uri)
           h == OrDefault(KwargsGet(kwargs, "headers"), EmptyMap)
           c == OrDefault(KwargsGet(kwargs, "cookies"), EmptyMap)
           ps == OrDefault(KwargsGet(kwargs, "parameters"), EmptyMap)
           e == OrDefault(KwargsGet(kwargs, "error_responses"), EmptyMap)
           rate == OrDefault(KwargsGet(kwargs, "rate_limit"), 0)
       IN  /\ frame' = [frame EXCEPT ![p] =
                          [NoFrame EXCEPT
                             !.op = "ClientInit",
                             !.given = [cls |-> cls, args |-> args,
                                        kwargs |-> kwargs],
                             !.trace =
                               IF uri_kw # MISSING /\ cls.has_post_init
                                 THEN <<ctor, PostInitCall(args, kwargs)>>
                                 ELSE <<ctor>>]]
           /\ IF uri_kw = MISSING
                THEN /\ init' = "failed"
                     /\ outcome' = [outcome EXCEPT ![p] =
                                      Raise("ClientError", NoStatusCode, NoPayload)]
                     /\ UNCHANGED <<uri, uri_path, headers, cookies, parameters,
                                    error_responses, rate_limit, limiter,
                                    is_rate_limited, _closed, _session>>
                ELSE /\ init' = "built"
                     /\ uri' = uri_kw
                     /\ uri_path' = Unwrap(uri_kw)
                     /\ headers' = h
                     /\ cookies' = c
                     /\ parameters' = ps
                     /\ error_responses' = e
                     /\ rate_limit' = rate
                     /\ limiter' = InitRateLimit(rate)
                     /\ is_rate_limited' = (rate # 0)
                     /\ _closed' = FALSE
                     /\ _session' = [state |-> "open",
                                    default_headers |-> SessionDefaultHeaders(h),
                                    cookie_jar |-> SessionCookieJar(EmptyMap, c),
                                    close_calls |-> 0]
                     /\ outcome' = [outcome EXCEPT ![p] = ReturnNone]
  /\ UNCHANGED <<pc, reader, written, utils>>

\* ------------------------------------------------------- chunk_file_reader
Min(a, b) == IF a < b THEN a ELSE b

\* f.read(n) at offset pos of a file of the given length: the next n bytes,
\* fewer at the end of the file, none beyond it.
ReadWhole(file, pos, n) == [from |-> pos, len |-> file - pos]
Read(file, pos, n) == [from |-> pos, len |-> Min(n, file - pos)]

\* chunk_file_reader(file): calling the generator function makes a generator
\* and runs none of its body.
chunk_file_reader(Files) ==
  /\ reader.state \in {"none", "done"}
  /\ \E file \in Files :
       reader' = [NoReader EXCEPT !.state = "created", !.file = file]
  /\ UNCHANGED <<client, written, utils, limiter, _closed, _session, pc, frame, outcome>>

\* next() on the generator: the first opens the file, each reads a chunk and
\* yields it unless it is empty; an empty chunk ends the generator, and next()
\* on an ended generator raises StopIteration again.
ReaderNext ==
  /\ reader.state \in {"created", "suspended", "done"}
  /\ IF reader.state = "done"
       THEN /\ reader.stops < MaxStops
            /\ reader' = [reader EXCEPT !.stops = @ + 1]
       ELSE LET chunk == Read(reader.file, reader.pos, ChunkSize)
            IN  IF chunk.len # 0
                  THEN reader' = [reader EXCEPT !.state = "suspended",
                                                !.pos = @ + chunk.len,
                                                !.yielded = Append(@, chunk)]
                  ELSE reader' = [reader EXCEPT !.state = "done", !.stops = 1]
  /\ UNCHANGED <<client, written, utils, limiter, _closed, _session, pc, frame, outcome>>

\* ----------------------------------------------------------------- request
\* Whether session.request goes ahead: an open session sends, a closed one
\* raises RuntimeError; one whose close() is still awaited may do either.
SessionAccepts(state) ==
  IF state = "open" THEN {TRUE} ELSE IF state = "closed" THEN {FALSE} ELSE BOOLEAN

\* Lines 306-312 rebind the local names headers, cookies, parameters and
\* error_responses and assign nothing to self: the client's four mappings
\* after them are what they were.
SelfAfterMergeAssigned(self_cfg, args) ==
  [headers |-> merge_dicts(Some(self_cfg.headers), args.headers),
   cookies |-> merge_dicts(Some(self_cfg.cookies), args.cookies),
   parameters |-> merge_dicts(Some(self_cfg.parameters), args.parameters),
   error_responses |->
     EffectiveErrorResponses(self_cfg.error_responses, args.error_responses)]
SelfAfterMerge(self_cfg, args) == self_cfg

\* Lines 306-323: resolve the path, merge the configuration and hand the call
\* to the session; the coroutine then waits for the response.
Issue(p, f, lim) ==
  LET path == FullPath(uri_path, f.args.path)
      hdrs == RequestHeaders(f.args.headers)
      cks == RequestCookies(f.args.cookies)
      params == RequestParameters(parameters, f.args.parameters)
      table == EffectiveErrorResponses(error_responses, f.args.error_responses)
      call == SessionSend(_session, f.args.method, path, hdrs, cks, params,
                          f.args.body, f.args.data, f.args.timeout)
      g == [f EXCEPT !.calls = f.calls + 1, !.session_at_call = _session.state,
                     !.table = table]
      after == SelfAfterMerge([headers |-> headers, cookies |-> cookies,
                               parameters |-> parameters,
                               error_responses |-> error_responses], f.args)
  IN  /\ limiter' = lim
      /\ headers' = after.headers
      /\ cookies' = after.cookies
      /\ parameters' = after.parameters
      /\ error_responses' = after.error_responses
      /\ \E accepted \in SessionAccepts(_session.state) :
           IF accepted
             THEN /\ frame' = [frame EXCEPT ![p] = [g EXCEPT !.sent = call]]
                  /\ pc' = [pc EXCEPT ![p] = "response"]
                  /\ outcome' = [outcome EXCEPT ![p] = Pending]
             ELSE /\ frame' = [frame EXCEPT ![p] = g]
                  /\ pc' = [pc EXCEPT ![p] = "idle"]
                  /\ outcome' = [outcome EXCEPT ![p] =
                                   Raise("RuntimeError", NoStatusCode, NoPayload)]
      /\ UNCHANGED <<init, uri, uri_path, rate_limit, is_rate_limited, written,
                     reader, utils, _closed, _session>>

\* if self.closed: ... return
RefusesNever(is_closed) == FALSE
Refuses(is_closed) == is_closed

\* if self.__limiter:
ThrottledNever(lim) == FALSE
Throttled(lim) == lim.installed

\* Lines 294-304 of request(), entered from the operation op with the
\* arguments args; given is what the caller passed to op.
Dispatch(p, op, given, args, opened) ==
  LET f == [NoFrame EXCEPT !.op = op, !.given = given,
                           !.written_before = written,
                           !.started_closed = closed,
                           !.file_opened = opened,
                           !.args = [args EXCEPT !.path = NormalisePath(args.path)]]
  IN  /\ pc[p] = "idle"
      /\ init = "built"
      /\ IF Refuses(closed)
           THEN /\ frame' = [frame EXCEPT ![p] = [f EXCEPT !.args = args]]
                /\ outcome' = [outcome EXCEPT ![p] = ReturnNone]
                /\ UNCHANGED <<client, written, reader, utils, limiter, _closed, _session, pc>>
         ELSE IF Throttled(limiter) /\ ~HasCapacity
           THEN /\ frame' = [frame EXCEPT ![p] = f]
                /\ outcome' = [outcome EXCEPT ![p] = Pending]
                /\ pc' = [pc EXCEPT ![p] = "acquire"]
                /\ UNCHANGED <<client, written, reader, utils, limiter, _closed, _session>>
         ELSE IF Throttled(limiter)
           THEN Issue(p, [f EXCEPT !.acquired = 1],
                      [limiter EXCEPT !.level = limiter.level + 1])
         ELSE Issue(p, f, limiter)

\* await self.__limiter.acquire() returns once the limiter has capacity.
Acquired(p) ==
  /\ pc[p] = "acquire"
  /\ HasCapacity
  /\ Issue(p, [frame[p] EXCEPT !.acquired = 1],
           [limiter EXCEPT !.level = limiter.level + 1])

\* The limiter's bucket leaks as time passes.
Leak ==
  /\ limiter.installed
  /\ limiter.level > 0
  /\ limiter' = [limiter EXCEPT !.level = limiter.level - 1]
  /\ UNCHANGED <<client, written, reader, utils, _closed, _session, pc, frame, outcome>>

\* Every branch of lines 324-360 returns or raises: request() is over.
AfterResponseRetry(out) == IF out.kind = "raise" THEN "acquire" ELSE "idle"
AfterResponse(out) == "idle"

\* Whether assigning _request_base to a parsed object raises: either, when
\* the code gets to assign it, and not otherwise.
SetattrOutcomes(r, response_format) ==
  IF /\ ResponseOk(r.status) /\ r.body.valid /\ response_format # None
     /\ r.body.json.items # <<>> /\ r.body.json.items[1].fits
    THEN BOOLEAN ELSE {FALSE}

\* The response arrives: lines 324-360.
Respond(p, Responses) ==
  /\ pc[p] = "response"
  /\ \E r \in Responses :
       \E raises \in SetattrOutcomes(r, frame[p].args.response_format) :
         LET out == HandleResponse(r.status, r.body,
                                   frame[p].args.response_format,
                                   frame[p].table, frame[p].sent.path, raises)
         IN  /\ frame' = [frame EXCEPT ![p].response = r,
                                       ![p].setattr_raises = raises]
             /\ outcome' = [outcome EXCEPT ![p] = out]
             /\ pc' = [pc EXCEPT ![p] = AfterResponse(out)]
  /\ UNCHANGED <<client, written, reader, utils, limiter, _closed, _session>>

\* ------------------------------------------------------------- operations
request(p, Opts) ==
  \E o \in Opts : Dispatch(p, "request", o, o, FALSE)

get(p, Opts) ==
  \E o \in Opts :
    LET g == [o EXCEPT !.method = "", !.body = None, !.data = "none"]
    IN  Dispatch(p, "get", g, [g EXCEPT !.method = "GET"], FALSE)

post(p, Opts) ==
  \E o \in Opts :
    LET g == [o EXCEPT !.method = ""]
    IN  Dispatch(p, "post", g, [g EXCEPT !.method = "POST"], FALSE)

patch(p, Opts) ==
  \E o \in Opts :
    LET g == [o EXCEPT !.method = ""]
    IN  Dispatch(p, "patch", g, [g EXCEPT !.method = "PATCH"], FALSE)

put(p, Opts) ==
  \E o \in Opts :
    LET g == [o EXCEPT !.method = ""]
    IN  Dispatch(p, "put", g, [g EXCEPT !.method = "PUT"], FALSE)

deleteDropsTimeout(p, Opts) ==
  \E o \in Opts :
    LET g == [o EXCEPT !.method = ""]
    IN  Dispatch(p, "delete", g, [g EXCEPT !.method = "DELETE", !.timeout = 300],
                 FALSE)
delete(p, Opts) ==
  \E o \in Opts :
    LET g == [o EXCEPT !.method = ""]
    IN  Dispatch(p, "delete", g, [g EXCEPT !.method = "DELETE"], FALSE)

\* data={'file': open(file, 'rb')}: the file is opened before request() runs.
upload_file(p, Opts) ==
  \E o \in Opts :
    LET g == [o EXCEPT !.method = "", !.body = None, !.data = "none"]
    IN  Dispatch(p, "upload_file", g,
                 [g EXCEPT !.method = "POST", !.data = "file"], TRUE)

\* data=chunk_file_reader(file): a generator, which opens the file only when
\* the session first iterates it.
stream_file(p, Opts) ==
  \E o \in Opts :
    LET g == [o EXCEPT !.method = "", !.body = None, !.data = "none"]
    IN  Dispatch(p, "stream_file", g,
                 [g EXCEPT !.method = "POST", !.data = "chunks"], FALSE)

\* client.parameters[k] = v: the parameters attribute is the client's own
\* mapping, so the assignment stays in it.
WriteParameterLost(ps, k, v) == ps
WriteParameter(ps, k, v) ==
  [x \in DOMAIN ps \cup {k} |-> IF x = k THEN v ELSE ps[x]]

\* A statement of the caller p, between two of its operations, that assigns
\* a key of client.parameters (self.parameters['apiKey'] = self.api_key in
\* __init__ or __post_init__, client.parameters['e'] = "test" later).
SetParameter(p, Ks, Vs) ==
  /\ pc[p] = "idle"
  /\ init = "built"
  /\ \E k \in Ks, v \in Vs :
       /\ parameters' = WriteParameter(parameters, k, v)
       /\ written' = [x \in DOMAIN written \cup {k} |->
                         IF x = k THEN v ELSE written[x]]
  /\ UNCHANGED <<init, uri, uri_path, headers, cookies, error_responses,
                 rate_limit, is_rate_limited, limiter, _closed, _session, pc,
                 frame, outcome, reader, utils>>

\* close(), up to "await self._session.close()".
CloseBegin(p) ==
  /\ pc[p] = "idle"
  /\ init = "built"
  /\ frame' = [frame EXCEPT ![p] = [NoFrame EXCEPT !.op = "close",
                                                   !.started_closed = _closed]]
  /\ IF ~_closed
       THEN /\ _session' = [_session EXCEPT
                             !.state = IF @ = "open" THEN "closing" ELSE @,
                             !.close_calls = @ + 1]
            /\ pc' = [pc EXCEPT ![p] = "closing"]
            /\ outcome' = [outcome EXCEPT ![p] = Pending]
       ELSE /\ outcome' = [outcome EXCEPT ![p] = ReturnNone]
            /\ UNCHANGED <<_session, pc>>
  /\ UNCHANGED <<client, written, reader, utils, limiter, _closed>>

\* session.close() has finished: self._closed = True, then _teardown().
CloseEnd(p) ==
  /\ pc[p] = "closing"
  /\ _session' = [_session EXCEPT !.state = "closed"]
  /\ _closed' = TRUE
  /\ pc' = [pc EXCEPT ![p] = "idle"]
  /\ outcome' = [outcome EXCEPT ![p] = ReturnNone]
  /\ UNCHANGED <<client, written, reader, utils, limiter, frame>>

\* ---------------------------------------------------------- specifications
FullDefaults == [k \in Keys |-> DefaultVal[k]]
PlainOptions ==
  Options({"GET"}, {<<"x">>}, {None}, {None}, {None}, {None}, {None})
OkBody == [valid |-> TRUE, text |-> "json-text",
           json |-> [array |-> FALSE, items |-> <<[id |-> 1, fits |-> TRUE]>>]]
BadBody == [valid |-> FALSE, text |-> "<html>", json |-> NullJson]
SomeResponses == [status : {200, 404}, body : {OkBody, BadBody}]

\* Spec: coroutines of one event loop calling request() and close() on one
\* client, with and without a rate limit.
Init ==
  \E rate \in 0..MaxRate :
    Constructed(<<Slash, "v">>, FullDefaults, FullDefaults, FullDefaults,
                EmptyMap, rate)

Next ==
  \/ \E p \in Coroutines :
       \/ request(p, PlainOptions)
       \/ Acquired(p)
       \/ Respond(p, SomeResponses)
       \/ CloseBegin(p)
       \/ CloseEnd(p)
  \/ Leak

Spec == Init /\ [][Next]_vars

\* SpecOps: one caller using every operation of the client in any order.
OpsOptions ==
  Options({"GET", "POST"}, {<<>>, <<"x">>}, {None}, {None},
          {None, Some([k \in {"b"} |-> 3])}, {None}, {None})

NextOps ==
  \/ request(1, OpsOptions)
  \/ get(1, OpsOptions)
  \/ post(1, OpsOptions)
  \/ patch(1, OpsOptions)
  \/ put(1, OpsOptions)
  \/ delete(1, OpsOptions)
  \/ upload_file(1, OpsOptions)
  \/ stream_file(1, OpsOptions)
  \/ Acquired(1)
  \/ Respond(1, SomeResponses)
  \/ CloseBegin(1)
  \/ CloseEnd(1)
  \/ Leak

SpecOps == Init /\ [][NextOps]_vars

\* SpecMerge: one caller sending requests with every combination of client
\* defaults and per-call overrides of headers, cookies and parameters.
MergeOptions ==
  Options({"GET"}, {<<"x">>}, Optional(OverrideMaps), Optional(OverrideMaps),
          Optional(OverrideMaps), {None}, {None})

InitMerge ==
  \E h \in DefaultMaps, c \in DefaultMaps, ps \in DefaultMaps :
    Constructed(<<>>, h, c, ps, EmptyMap, 0)

NextMerge ==
  \/ request(1, MergeOptions)
  \/ Respond(1, [status : {200}, body : {OkBody}])

SpecMerge == InitMerge /\ [][NextMerge]_vars

\* SpecStatus: one caller receiving every status code with every body, with
\* and without response and error schemas.
StatusOptions ==
  Options({"GET"}, {<<"x">>}, {None}, {None}, {None},
          Optional(ResponseSchemas), Optional(CallErrorTables))

InitStatus ==
  \E e \in ErrorTables :
    Constructed(<<>>, FullDefaults, FullDefaults, FullDefaults, e, 0)

NextStatus ==
  \/ request(1, StatusOptions)
  \/ Respond(1, [status : StatusCodes, body : Bodies])

SpecStatus == InitStatus /\ [][NextStatus]_vars

\* SpecWrap: one caller using every operation with no option given, with
\* each option given alone and with all of them given.
OptionNames == {"path", "body", "data", "headers", "cookies", "parameters",
                "response_format", "timeout", "error_responses"}
AllOptions ==
  [method : {"POST"}, path : {<<>>, <<"x">>},
   body : Optional({"body"}), data : {"none", "bytes"},
   headers : Optional({[k \in {"b"} |-> 3]}),
   cookies : Optional({[k \in {"a"} |-> 3]}),
   parameters : Optional({[k \in {"b"} |-> 3]}),
   response_format : Optional(ResponseSchemas), timeout : {300, 5},
   error_responses : Optional({[c \in {404} |-> "CallNotFound"]})]
WrapOptions ==
  {o \in AllOptions :
     Cardinality({f \in OptionNames : o[f] # NoArgs[f]})
       \in {0, 1, Cardinality(OptionNames)}}

InitWrap ==
  Constructed(<<Slash, "v">>, FullDefaults, FullDefaults, FullDefaults,
              [c \in {404} |-> "ClientNotFound"], 0)

NextWrap ==
  \/ request(1, WrapOptions)
  \/ get(1, WrapOptions)
  \/ post(1, WrapOptions)
  \/ patch(1, WrapOptions)
  \/ put(1, WrapOptions)
  \/ delete(1, WrapOptions)
  \/ upload_file(1, WrapOptions)
  \/ stream_file(1, WrapOptions)
  \/ Respond(1, SomeResponses)

SpecWrap == InitWrap /\ [][NextWrap]_vars

\* SpecDefaults: one caller assigns keys of client.parameters between its
\* requests, which override some keys and not others.
DefaultsOptions ==
  Options({"GET"}, {<<"x">>}, {None}, {None}, Optional(OverrideMaps), {None},
          {None})

InitDefaults ==
  \E ps \in {EmptyMap, [k \in {"a"} |-> 1]}, rate \in 0..MaxRate :
    Constructed(<<>>, EmptyMap, EmptyMap, ps, EmptyMap, rate)

NextDefaults ==
  \/ SetParameter(1, Keys, {2})
  \/ request(1, DefaultsOptions)
  \/ Acquired(1)
  \/ Respond(1, [status : {200}, body : {OkBody}])
  \/ Leak

SpecDefaults == InitDefaults /\ [][NextDefaults]_vars

\* SpecOverride: coroutines sending requests that override any of headers,
\* cookies, parameters and error_responses, or none of them.
OverrideOptions ==
  Options({"GET"}, {<<"x">>}, Optional({[k \in {"b"} |-> 3]}),
          Optional({[k \in {"b"} |-> 3]}), Optional({[k \in {"b"} |-> 3]}),
          {None}, Optional({[c \in {404} |-> "CallNotFound"]}))

InitOverride ==
  Constructed(<<>>, FullDefaults, FullDefaults, FullDefaults,
              [c \in {404} |-> "ClientNotFound"], 0)

NextOverride ==
  \E p \in Coroutines :
    \/ request(p, OverrideOptions)
    \/ Respond(p, SomeResponses)

SpecOverride == InitOverride /\ [][NextOverride]_vars

\* SpecPath: clients with and without a base path, sending requests to every
\* call path of up to MaxPathLen characters.
PathsUpTo(n) == UNION {[1..k -> {Slash, "x"}] : k \in 0..n}

PathOptions ==
  Options({"GET"}, PathsUpTo(MaxPathLen), {None}, {None}, {None}, {None}, {None})

InitPath ==
  \E up \in {<<>>, <<Slash, "v">>} :
    Constructed(up, EmptyMap, EmptyMap, EmptyMap, EmptyMap, 0)

NextPath ==
  \E p \in Coroutines :
    \/ request(p, PathOptions)
    \/ Respond(p, [status : {200}, body : {OkBody}])

SpecPath == InitPath /\ [][NextPath]_vars

\* ------------------------------------------------------- sleep_and_retry
\* What one invocation of the wrapped function does: it returns a value, or
\* raises RateLimitException with a period_remaining, or raises another
\* exception.
Returned(v) == [kind |-> "return", class |-> "", value |-> v, period |-> 0]
Raised(cls, period) == [kind |-> "raise", class |-> cls, value |-> 0, period |-> period]
FuncOutcomes ==
  {Returned(v) : v \in {1, 2}}
    \cup {Raised("RateLimitException", n) : n \in 1..MaxPeriod}
    \cup {Raised("ConnectionError", 0)}

\* except RateLimitException as exception:
RetriesNothing(o) == FALSE
Retries(o) == o.kind = "raise" /\ o.class = "RateLimitException"

\* The RateLimitExceptions raised so far in this call of the wrapper.
RaisedInARow(r) == Len(r.history)

\* wrapper(*args, **kwargs) is called.
wrapper ==
  /\ retry.state \in {"none", "done"}
  /\ retry' = [NoRetry EXCEPT !.state = "calling"]
  /\ UNCHANGED <<client, written, reader, model_call, validation, limiter,
                 _closed, _session, pc, frame, outcome>>

\* return func(*args, **kwargs): an outcome that is not caught ends the
\* wrapper with it; a caught one leads to the sleep. The limiter behind func
\* refuses at most MaxRaises times in a row.
func(Outcomes) ==
  /\ retry.state = "calling"
  /\ \E o \in Outcomes :
       /\ (o.class = "RateLimitException") => RaisedInARow(retry) < MaxRaises
       /\ retry' = IF Retries(o)
                     THEN [retry EXCEPT !.history = Append(@, o),
                                        !.state = "sleeping"]
                     ELSE [retry EXCEPT !.history = Append(@, o),
                                        !.state = "done",
                                        !.result = o]
  /\ UNCHANGED <<client, written, reader, model_call, validation, limiter,
                 _closed, _session, pc, frame, outcome>>

\* time.sleep(exception.period_remaining), then the next round of while True
SleepAndReturn(r) ==
  [r EXCEPT !.slept = Append(@, r.history[Len(r.history)].period),
            !.state = "done", !.result = Returned(0)]
SleepAndLoop(r) ==
  [r EXCEPT !.slept = Append(@, r.history[Len(r.history)].period),
            !.state = "calling"]

time_sleep ==
  /\ retry.state = "sleeping"
  /\ retry' = SleepAndLoop(retry)
  /\ UNCHANGED <<client, written, reader, model_call, validation, limiter,
                 _closed, _session, pc, frame, outcome>>

InitRetry ==
  Constructed(<<>>, EmptyMap, EmptyMap, EmptyMap, EmptyMap, 0)

NextRetry ==
  \/ wrapper
  \/ func(FuncOutcomes)
  \/ time_sleep

SpecRetry == InitRetry /\ [][NextRetry]_vars

\* The wrapped function returns or raises, and time.sleep returns.
SpecRetryLive ==
  /\ InitRetry
  /\ [][NextRetry]_vars
  /\ WF_vars(func(FuncOutcomes))
  /\ WF_vars(time_sleep)

\* ------------------------------------------------------------- BaseModel
\* A model instance has the fields x and y, in this order, with the aliases
\* X and Y. A field's value is its default, None or another value, and the
\* field is in fields_set when it was given at construction.
Fields == {"x", "y"}
FieldOrder == <<"x", "y">>
Alias(f) == IF f = "x" THEN "X" ELSE "Y"
FieldValues == {"default", "none", "other"}
Instances ==
  [fields_set : SUBSET Fields,
   values : {v \in [Fields -> FieldValues] : v["y"] # "none"}]

\* The keyword options of dict, json and copy, at their defaults.
DefaultModelOptions ==
  [include |-> None, exclude |-> None, by_alias |-> FALSE,
   exclude_unset |-> FALSE, exclude_defaults |-> FALSE, exclude_none |-> FALSE,
   encoder |-> None, models_as_dict |-> TRUE, update |-> None, deep |-> FALSE]

DictOptions ==
  [include : Optional({{"x"}}), exclude : Optional({{"y"}}),
   by_alias : BOOLEAN, exclude_unset : BOOLEAN, exclude_defaults : BOOLEAN,
   exclude_none : BOOLEAN, encoder : {None}, models_as_dict : {TRUE},
   update : {None}, deep : {FALSE}]
JsonOptions ==
  [include : Optional({{"x"}}), exclude : Optional({{"y"}}),
   by_alias : BOOLEAN, exclude_unset : BOOLEAN, exclude_defaults : BOOLEAN,
   exclude_none : BOOLEAN, encoder : Optional({"custom"}),
   models_as_dict : BOOLEAN, update : {None}, deep : {FALSE}]
CopyOptions ==
  [include : Optional({{"x"}}), exclude : Optional({{"y"}}),
   by_alias : {FALSE}, exclude_unset : {FALSE}, exclude_defaults : {FALSE},
   exclude_none : {FALSE}, encoder : {None}, models_as_dict : {TRUE},
   update : Optional({[f \in {"y"} |-> "other"]}), deep : BOOLEAN]

\* pydantic's Config.json_dumps: json.dumps, which raises TypeError for a
\* keyword it does not know, or a function that takes any keyword.
JsonDumps == {"json.dumps", "any_keywords"}

ModelReturn(v) == [kind |-> "return", class |-> "", value |-> v]
ModelRaise(cls) == [kind |-> "raise", class |-> cls, value |-> <<>>]

\* The fields pydantic's _iter keeps under the options o.
Kept(inst, o) ==
  {f \in Fields :
     /\ o.include = None \/ f \in Unwrap(o.include)
     /\ o.exclude = None \/ f \notin Unwrap(o.exclude)
     /\ o.exclude_unset => f \in inst.fields_set
     /\ o.exclude_defaults => inst.values[f] # "default"
     /\ o.exclude_none => inst.values[f] # "none"}

KeptInOrder(K) == SelectSeq(FieldOrder, LAMBDA f : f \in K)

\* json.dumps of one value: the encoder is asked for a value that is not a
\* JSON type.
Encode(v, encoder) ==
  IF v = "default" THEN "0"
  ELSE IF v = "none" THEN "null"
  ELSE IF encoder = None THEN "iso-text" ELSE "custom-text"

\* pydantic.BaseModel.dict: the kept fields by name or alias, with values.
PydBaseModel_dict(inst, o) ==
  LET ks == KeptInOrder(Kept(inst, o))
  IN  ModelReturn([i \in 1..Len(ks) |->
                     <<IF o.by_alias THEN Alias(ks[i]) ELSE ks[i],
                       inst.values[ks[i]]>>])

\* pydantic.BaseModel.json: the dict, serialised by Config.json_dumps with
\* default=encoder and the keywords pydantic does not know (dumps_kwargs).
PydBaseModel_json(inst, o, dumps_kwargs, json_dumps) ==
  LET ks == KeptInOrder(Kept(inst, o))
  IN  IF dumps_kwargs # {} /\ json_dumps = "json.dumps"
        THEN ModelRaise("TypeError")
        ELSE ModelReturn([i \in 1..Len(ks) |->
                            <<IF o.by_alias THEN Alias(ks[i]) ELSE ks[i],
                              Encode(inst.values[ks[i]], o.encoder)>>])

\* pydantic.BaseModel.copy: the included fields and the updated ones, the
\* fields set before and the updated ones set; deep copies the values.
PydBaseModel_copy(inst, o) ==
  LET upd == IF o.update = None THEN [f \in {} |-> "none"] ELSE Unwrap(o.update)
      sel == [DefaultModelOptions EXCEPT !.include = o.include,
                                         !.exclude = o.exclude]
      ks  == KeptInOrder(Kept(inst, sel) \cup DOMAIN upd)
  IN  ModelReturn(
        <<<<"deep", IF o.deep THEN "yes" ELSE "no", "">>>> \o
        [i \in 1..Len(ks) |->
           <<ks[i],
             IF ks[i] \in DOMAIN upd THEN upd[ks[i]] ELSE inst.values[ks[i]],
             IF ks[i] \in inst.fields_set \cup DOMAIN upd
               THEN "set" ELSE "unset">>])

\* BaseModel.dict: return super().dict(include=include, ...)
BaseModel_dict(inst, o) ==
  PydBaseModel_dict(inst,
    [DefaultModelOptions EXCEPT !.include = o.include,
                                !.exclude = o.exclude,
                                !.by_alias = o.by_alias,
                                !.exclude_unset = o.exclude_unset,
                                !.exclude_defaults = o.exclude_defaults,
                                !.exclude_none = o.exclude_none])

\* BaseModel.json: return super().json(include=include, ...,
\* exlclude_unset=exclude_unset, ...): exclude_unset is left at its default
\* and the keyword exlclude_unset goes to dumps_kwargs.
BaseModel_json(inst, o, json_dumps) ==
  PydBaseModel_json(inst,
    [DefaultModelOptions EXCEPT !.include = o.include,
                                !.exclude = o.exclude,
                                !.by_alias = o.by_alias,
                                !.exclude_defaults = o.exclude_defaults,
                                !.exclude_none = o.exclude_none,
                                !.encoder = o.encoder,
                                !.models_as_dict = o.models_as_dict],
    {"exlclude_unset"}, json_dumps)

\* BaseModel.copy: return super().copy(include=include, exclude=exclude,
\* update=update, deep=deep)
BaseModel_copy(inst, o) ==
  PydBaseModel_copy(inst,
    [DefaultModelOptions EXCEPT !.include = o.include,
                                !.exclude = o.exclude,
                                !.update = o.update,
                                !.deep = o.deep])

\* One call of a method of a model instance.
ModelCall(method, inst, o, json_dumps, result) ==
  /\ model_call.state = "none"
  /\ model_call' = [state |-> "done", method |-> method, instance |-> inst,
                    options |-> o, json_dumps |-> json_dumps,
                    result |-> result]
  /\ UNCHANGED <<client, written, reader, retry, validation, limiter,
                 _closed, _session, pc, frame, outcome>>

CallDict ==
  \E inst \in Instances, o \in DictOptions :
    ModelCall("dict", inst, o, "json.dumps", BaseModel_dict(inst, o))

CallJson ==
  \E inst \in Instances, o \in JsonOptions, d \in JsonDumps :
    ModelCall("json", inst, o, d, BaseModel_json(inst, o, d))

CallCopy ==
  \E inst \in Instances, o \in CopyOptions :
    ModelCall("copy", inst, o, "json.dumps", BaseModel_copy(inst, o))

InitModel ==
  Constructed(<<>>, EmptyMap, EmptyMap, EmptyMap, EmptyMap, 0)

NextModel ==
  \/ CallDict
  \/ CallJson
  \/ CallCopy

SpecModel == InitModel /\ [][NextModel]_vars

\* --------------------------------------------------------- validate_type
\* Classes of the objects and targets: bool is a subclass of int, and int
\* and str are subclasses of object.
Types == {"object", "int", "bool", "str"}
Base(t) == IF t = "bool" THEN "int" ELSE "object"

\* issubclass(cls, t)
RECURSIVE issubclass(_, _)
issubclass(cls, t) ==
  IF cls = t THEN TRUE
  ELSE IF cls = "object" THEN FALSE
  ELSE issubclass(Base(cls), t)

\* isinstance(obj, t), for an object of class cls
isinstance(cls, t) == issubclass(cls, t)

\* The three tests made of obj and one type t: isinstance(obj, t),
\* type(obj) is t, issubclass(type(obj), t).
MatchesExactly(cls, t) == cls = t
Matches(cls, t) == isinstance(cls, t) \/ cls = t \/ issubclass(cls, t)

\* A target is one type or a list of types.
OneType(t) == [list |-> FALSE, types |-> <<t>>]
ListOf(ts) == [list |-> TRUE, types |-> ts]
Targets ==
  {OneType(t) : t \in Types}
    \cup {ListOf(ts) : ts \in UNION {[1..n -> Types] : n \in 0..MaxTargets}}

\* validate_type(obj, target, err) for an object of class cls: "True",
\* "False" or the exception raised.
validate_type_result(cls, target, err) ==
  IF target.list /\ \E i \in 1..Len(target.types) : Matches(cls, target.types[i])
    THEN "True"
  ELSE IF ~target.list /\ Matches(cls, target.types[1])
    THEN "True"
  ELSE IF err THEN "ValidationError"
  ELSE "False"

validate_type(Objs, Ts) ==
  /\ validation.state = "none"
  /\ \E cls \in Objs, target \in Ts, err \in BOOLEAN :
       validation' = [state |-> "done", obj |-> cls, target |-> target,
                      err |-> err,
                      result |-> validate_type_result(cls, target, err)]
  /\ UNCHANGED <<client, written, reader, retry, model_call, limiter,
                 _closed, _session, pc, frame, outcome>>

InitValidate ==
  Constructed(<<>>, EmptyMap, EmptyMap, EmptyMap, EmptyMap, 0)

NextValidate == validate_type(Types, Targets)

SpecValidate == InitValidate /\ [][NextValidate]_vars

\* SpecConstruct: the class is called with every combination of keywords,
\* the uri among them or not, and the client it makes is used for requests.
ClientClasses == [uri : Optional({<<Slash, "c">>}), has_post_init : {FALSE}]
ConstructKwargs ==
  [uri : Optional({<<>>, <<Slash, "v">>}), headers : Optional(DefaultMaps),
   cookies : {None}, parameters : Optional({FullDefaults}),
   error_responses : Optional(ErrorTables), rate_limit : Optional(0..MaxRate),
   bearer_token : {None}, rate_limit_interval : {None}, api_key : {None}]

InitConstruct == Unbuilt

NextConstruct ==
  \/ ClientInit__call__(1, ClientClasses, {<<>>}, ConstructKwargs)
  \/ request(1, PlainOptions)
  \/ Acquired(1)
  \/ Respond(1, SomeResponses)
  \/ Leak

SpecConstruct == InitConstruct /\ [][NextConstruct]_vars

\* SpecMeta: classes with and without a uri and a __post_init__ are called
\* with the base address as a keyword, as the positional argument, or not at
\* all, and with any of the other keywords; the client is then used.
MetaClasses == [uri : Optional({<<Slash, "c">>}), has_post_init : BOOLEAN]
MetaArgs == {<<>>, <<<<Slash, "p">>>>}
MetaKwargs ==
  [uri : Optional({<<Slash, "v">>}), headers : Optional({FullDefaults}),
   cookies : {None}, parameters : {None}, error_responses : {None},
   rate_limit : Optional({1}), bearer_token : Optional({"token"}),
   rate_limit_interval : Optional({60}), api_key : Optional({"mysecretkey"})]

InitMeta == Unbuilt

NextMeta ==
  \/ ClientInit__call__(1, MetaClasses, MetaArgs, MetaKwargs)
  \/ request(1, PlainOptions)
  \/ Acquired(1)
  \/ Respond(1, [status : {200}, body : {OkBody}])
  \/ Leak

SpecMeta == InitMeta /\ [][NextMeta]_vars

\* SpecChunk: files of every length around a whole number of chunks are
\* streamed by chunk_file_reader, one generator after the other.
FileLengths ==
  {k * ChunkSize + d : k \in 0..MaxChunks, d \in 0..MaxTail}
    \cup {k * ChunkSize - d : k \in 1..MaxChunks, d \in 1..MaxTail}

NextChunk ==
  \/ chunk_file_reader(FileLengths)
  \/ ReaderNext

InitChunk ==
  Constructed(<<>>, EmptyMap, EmptyMap, EmptyMap, EmptyMap, 0)

SpecChunk == InitChunk /\ [][NextChunk]_vars

\* ------------------------------------------------------------- properties
RequestOps == {"request", "get", "post", "patch", "put", "delete",
               "upload_file", "stream_file"}
\* The session took coroutine p's call and sent it.
Sent(p) == frame[p].op \in RequestOps /\ frame[p].sent # NoCall
\* Coroutine p's call has been answered and request() has finished.
Answered(p) == Sent(p) /\ pc[p] = "idle" /\ frame[p].response # NoResponse
\* The mapping a caller passed, the empty one when it passed none.
Given(opt) == IF opt = None THEN EmptyMap ELSE Unwrap(opt)
HTTPClassNames == {c.name : c \in HTTPClasses}
Families == {"HTTPRedirect", "HTTPClientError", "HTTPServerError"}
FamilyOf(status) ==
  IF status \div 100 = 3 THEN "HTTPRedirect"
  ELSE IF status \div 100 = 4 THEN "HTTPClientError"
  ELSE "HTTPServerError"

C2_NoCallOnClosedSession ==
  \A p \in Coroutines :
    frame[p].calls > 0 => frame[p].session_at_call # "closed"

\* C3: the parameters sent are the client defaults overlaid with the call's
\* override: the keys of both, the override's value where it names the key,
\* the default's value elsewhere.
C3_MergePrecedence ==
  \A p \in Coroutines :
    Sent(p) =>
      LET D == parameters
          O == Given(frame[p].args.parameters)
          M == frame[p].sent.params
      IN  /\ DOMAIN M = DOMAIN D \cup DOMAIN O
          /\ \A k \in DOMAIN O : M[k] = O[k]
          /\ \A k \in DOMAIN D \ DOMAIN O : M[k] = D[k]

\* defaults {a:1, b:2} with override {b:3} are sent as {a:1, b:3}
C3_Witness ==
  \E p \in Coroutines :
    /\ Sent(p)
    /\ parameters = [k \in {"a", "b"} |-> IF k = "a" THEN 1 ELSE 2]
    /\ frame[p].args.parameters = Some([k \in {"b"} |-> 3])
    /\ frame[p].sent.params = [k \in {"a", "b"} |-> IF k = "a" THEN 1 ELSE 3]

\* C4: with an empty or absent override the parameters sent are exactly the
\* client defaults, and merging them with that override again changes nothing.
C4_MergeIdempotent ==
  \A p \in Coroutines :
    (Sent(p) /\ Given(frame[p].args.parameters) = EmptyMap)
      => /\ frame[p].sent.params = parameters
         /\ RequestParameters(frame[p].sent.params, frame[p].args.parameters)
              = frame[p].sent.params

C4_Witness ==
  \E p \in Coroutines :
    /\ Sent(p)
    /\ frame[p].args.parameters = Some(EmptyMap)
    /\ parameters # EmptyMap
    /\ frame[p].sent.params = parameters

\* C5: the headers and the cookies sent hold every client default the call's
\* override does not name, with the default's value, and the override's value
\* for every key it names; with no override they are the client defaults.
Overlaid(M, D, O) ==
  /\ \A k \in DOMAIN D \ DOMAIN O : k \in DOMAIN M /\ M[k] = D[k]
  /\ \A k \in DOMAIN O : k \in DOMAIN M /\ M[k] = O[k]
  /\ O = EmptyMap => M = D

C5_HeadersCookiesMerged ==
  \A p \in Coroutines :
    Sent(p) =>
      /\ Overlaid(frame[p].sent.headers, headers, Given(frame[p].args.headers))
      /\ Overlaid(frame[p].sent.cookies, cookies, Given(frame[p].args.cookies))

C5_Witness ==
  \E p \in Coroutines :
    /\ Sent(p)
    /\ headers = [k \in {"a", "b"} |-> IF k = "a" THEN 1 ELSE 2]
    /\ frame[p].args.headers = Some([k \in {"b"} |-> 3])
    /\ frame[p].sent.headers = [k \in {"a", "b"} |-> IF k = "a" THEN 1 ELSE 3]
    /\ cookies = [k \in {"a"} |-> 1]
    /\ frame[p].args.cookies = Some([k \in {"a", "b"} |-> 3])
    /\ frame[p].sent.cookies = [k \in {"a", "b"} |-> 3]

\* The lookup over all of 300..511: a class of the code's family, and of no
\* other, for a key of ERROR_RESPONSE_MAPPING, a different class for every
\* key, and HTTPError for every other code.
LookupIsFamilyConsistent ==
  \A c \in 300..511 :
    IF c \in DOMAIN ERROR_RESPONSE_MAPPING
      THEN /\ ErrorClassFor(c) \in HTTPClassNames
           /\ IsSubclass(ErrorClassFor(c), FamilyOf(c))
           /\ \A f \in Families \ {FamilyOf(c)} : ~IsSubclass(ErrorClassFor(c), f)
           /\ \A d \in DOMAIN ERROR_RESPONSE_MAPPING :
                d # c => ErrorClassFor(d) # ErrorClassFor(c)
      ELSE ErrorClassFor(c) = "HTTPError"

\* C6: for every status code in 300..511 the lookup gives a class of the
\* code's family when the code is a key of ERROR_RESPONSE_MAPPING and
\* HTTPError when it is not; no two codes give the same class, and no class
\* given belongs to two families.  The class an answered failure raised is
\* the one looked up for its status.
C6_FamilyConsistentMapping ==
  /\ LookupIsFamilyConsistent
  /\ \A p \in Coroutines :
       (Answered(p) /\ outcome[p].class \in HTTPClassNames)
         => /\ outcome[p].class = ErrorClassFor(frame[p].response.status)
            /\ frame[p].response.status \in DOMAIN ERROR_RESPONSE_MAPPING
                 => IsSubclass(outcome[p].class, FamilyOf(frame[p].response.status))

C6_Witness ==
  \E p \in Coroutines :
    /\ Answered(p)
    /\ frame[p].response.status = 451
    /\ outcome[p].kind = "raise"
    /\ outcome[p].class = "HTTPUnavailableForLegalReasons"

\* C7: a failure response with a valid JSON body raises the class mapped to
\* its status, carrying the raw parsed body when the error table in effect
\* has no schema for the status and the body parsed into that schema when it
\* has one.
C7_ErrorCarriesRawOrParsed ==
  \A p \in Coroutines :
    (Answered(p) /\ ~ResponseOk(frame[p].response.status)
       /\ frame[p].response.body.valid)
      => LET st == frame[p].response.status
             doc == frame[p].response.body.json
         IN  /\ outcome[p].kind = "raise"
             /\ outcome[p].class = ErrorClassFor(st)
             /\ outcome[p].payload =
                  IF st \in DOMAIN frame[p].table
                    THEN ModelPayload(frame[p].table[st], doc, <<>>)
                    ELSE RawPayload(doc)

\* C8: every HTTP error raised carries the status code of the response that
\* caused it.
C8_ErrorCarriesStatus ==
  \A p \in Coroutines :
    (Answered(p) /\ outcome[p].kind = "raise"
       /\ outcome[p].class \in HTTPClassNames)
      => outcome[p].status_code = frame[p].response.status

\* C9: a 3xx, 4xx or 5xx response never makes request() return a value, and
\* a 3xx response with a JSON body raises a class of the Redirection family,
\* or HTTPError when its code is not mapped.
C9_RedirectRaises ==
  \A p \in Coroutines :
    (Answered(p) /\ frame[p].response.status >= 300)
      => /\ outcome[p].kind = "raise"
         /\ (frame[p].response.status < 400 /\ frame[p].response.body.valid)
              => \/ IsSubclass(outcome[p].class, "HTTPRedirect")
                 \/ outcome[p].class = "HTTPError"

\* C10: a response whose body is not JSON makes request() raise
\* ResponseParseError carrying the response text, whatever the status.
C10_ParseErrorOnBothPaths ==
  \A p \in Coroutines :
    (Answered(p) /\ ~frame[p].response.body.valid)
      => outcome[p] = Raise("ResponseParseError", NoStatusCode,
                            TextPayload(frame[p].response.body.text))

C10_Witness ==
  \E p \in Coroutines :
    /\ Answered(p)
    /\ frame[p].response.status = 503
    /\ ~frame[p].response.body.valid
    /\ outcome[p].class = "ResponseParseError"
    /\ outcome[p].payload.text = "<html>"

\* C11: a success response with a JSON body and a response schema the body
\* conforms to returns one schema object for a single value and, for an array
\* of n elements, n schema objects in the array's order, each with the
\* request's URL in its request_base_ field; with no schema the decoded JSON
\* is returned as it is.
C11_SchemaObjectsStamped ==
  \A p \in Coroutines :
    (Answered(p) /\ ResponseOk(frame[p].response.status)
       /\ frame[p].response.body.valid)
      => LET doc == frame[p].response.body.json
             fmt == frame[p].args.response_format
         IN  IF fmt = None
               THEN outcome[p] = Return(RawPayload(doc))
             ELSE Validates(doc) =>
                    /\ outcome[p].kind = "return"
                    /\ outcome[p].payload.form = "model"
                    /\ outcome[p].payload.schema = Unwrap(fmt)
                    /\ outcome[p].payload.array = doc.array
                    /\ outcome[p].payload.items = doc.items
                    /\ doc.items # <<>> =>
                         outcome[p].payload.request_base_ = frame[p].sent.path

\* C12: calling a class that has no uri without a uri raises ClientError and
\* makes no client; every client that exists, and every client a request
\* runs on, was given a uri.
C12_NoClientWithoutUri ==
  /\ init = "built" => uri # MISSING
  /\ \A p \in Coroutines :
       /\ (/\ frame[p].op = "ClientInit"
           /\ frame[p].given.kwargs.uri = None
           /\ frame[p].given.cls.uri = None)
            => /\ init = "failed"
               /\ outcome[p] = Raise("ClientError", NoStatusCode, NoPayload)
       /\ frame[p].op \in RequestOps => (init = "built" /\ uri # MISSING)

C12_Witness ==
  \E p \in Coroutines :
    /\ frame[p].op = "ClientInit"
    /\ frame[p].given.kwargs.uri = None
    /\ frame[p].given.cls.uri = None
    /\ frame[p].given.kwargs.headers # None
    /\ init = "failed"
    /\ outcome[p].class = "ClientError"

\* C13: the chunks chunk_file_reader has yielded are each between 1 and
\* 64 KiB long, all but the latest exactly 64 KiB, and follow one another in
\* the file from its first byte; when the generator has ended they reach the
\* file's last byte (none for an empty file), and asking an ended generator
\* again adds nothing.
C13_ChunksCoverFile ==
  LET ch == reader.yielded
      n == Len(ch)
  IN  reader.state # "none" =>
        /\ \A i \in 1..n : ch[i].len >= 1 /\ ch[i].len <= ChunkSize
        /\ \A i \in 1..(n - 1) : ch[i].len = ChunkSize
        /\ \A i \in 1..n :
             ch[i].from = IF i = 1 THEN 0 ELSE ch[i - 1].from + ch[i - 1].len
        /\ reader.state = "done" =>
             /\ (n = 0) <=> (reader.file = 0)
             /\ n > 0 => ch[n].from + ch[n].len = reader.file

\* a file of two chunks and one byte, asked again after it ended
C13_Witness ==
  /\ reader.state = "done"
  /\ reader.stops > 1
  /\ reader.file = 2 * ChunkSize + 1
  /\ Len(reader.yielded) = 3
  /\ reader.yielded[3] = [from |-> 2 * ChunkSize, len |-> 1]

\* C14: on a client with a rate limit, an operation that has called the
\* session completed exactly one acquisition of the client's limiter before
\* the call, and an operation still waiting for capacity has called nothing.
C14_AcquiredBeforeCall ==
  rate_limit # 0 =>
    \A p \in Coroutines :
      frame[p].op \in RequestOps =>
        /\ frame[p].acquired <= 1
        /\ frame[p].calls > 0 => frame[p].acquired = 1
        /\ pc[p] = "acquire" => /\ frame[p].calls = 0
                                /\ frame[p].acquired = 0
                                /\ frame[p].sent = NoCall

C14_Witness ==
  \E p \in Coroutines :
    /\ rate_limit # 0
    /\ frame[p].op = "upload_file"
    /\ Sent(p)
    /\ frame[p].acquired = 1
    /\ limiter.level = limiter.max_rate

\* C15: an invocation of request() calls the session at most once, and one
\* that raised (ResponseParseError, an HTTP error class) has made exactly one
\* call and is over.
C15_NoRetry ==
  \A p \in Coroutines :
    frame[p].op \in RequestOps =>
      /\ frame[p].calls <= 1
      /\ outcome[p].kind = "raise" => (pc[p] = "idle" /\ frame[p].calls = 1)

C15_Witness ==
  \E p, q \in Coroutines :
    /\ Answered(p) /\ outcome[p].class = "ResponseParseError"
    /\ frame[p].calls = 1
    /\ Answered(q) /\ outcome[q].class = "HTTPNotFound"
    /\ frame[q].calls = 1

\* C16: over every interleaving of close() calls the session's close() is
\* invoked at most once, and once closed is true it stays true.
C16_SessionClosedOnce ==
  /\ [](_session.close_calls <= 1)
  /\ [][closed => closed']_vars

\* The verb and the data a convenience operation calls request() with.
Verb(op) ==
  CASE op = "get" -> "GET"
    [] op = "post" -> "POST"
    [] op = "patch" -> "PATCH"
    [] op = "put" -> "PUT"
    [] op = "delete" -> "DELETE"
    [] op \in {"upload_file", "stream_file"} -> "POST"
DataOf(op, o) ==
  IF op = "upload_file" THEN "file"
  ELSE IF op = "stream_file" THEN "chunks"
  ELSE o.data

\* C17: a convenience operation called with options o sends what
\* request(verb, path, o) sends, with its verb and, for upload_file and
\* stream_file, the file as data, and hands back what request() hands back
\* for the response: every option is forwarded unchanged.
C17_WrappersAreRequest ==
  \A p \in Coroutines :
    frame[p].op \in RequestOps \ {"request"} =>
      LET o == frame[p].given
          op == frame[p].op
      IN  /\ Sent(p) =>
               frame[p].sent =
                 SessionSend(_session, Verb(op),
                             FullPath(uri_path, NormalisePath(o.path)),
                             RequestHeaders(o.headers), RequestCookies(o.cookies),
                             RequestParameters(parameters, o.parameters),
                             o.body, DataOf(op, o), o.timeout)
          /\ Answered(p) =>
               outcome[p] =
                 HandleResponse(frame[p].response.status, frame[p].response.body,
                                o.response_format,
                                EffectiveErrorResponses(error_responses,
                                                        o.error_responses),
                                frame[p].sent.path, frame[p].setattr_raises)

C17_Witness ==
  \E p \in Coroutines :
    /\ frame[p].op = "delete"
    /\ Answered(p)
    /\ frame[p].given.timeout = 5
    /\ frame[p].given.body # None
    /\ frame[p].given.error_responses # None
    /\ frame[p].sent.method = "DELETE"
    /\ frame[p].sent.timeout = 5
    /\ frame[p].response.status = 404
    /\ outcome[p].payload.schema = "CallNotFound"

\* C18: the error table in effect for a call is the call's error_responses
\* when it is not None and the client's only when it is None; a failure
\* status with a JSON body and no schema in that table raises the class
\* mapped to the status with the raw body.
C18_CallTableReplaces ==
  \A p \in Coroutines :
    Sent(p) =>
      LET table == IF frame[p].args.error_responses # None
                     THEN Unwrap(frame[p].args.error_responses)
                     ELSE error_responses
          st == frame[p].response.status
      IN  /\ frame[p].table = table
          /\ (Answered(p) /\ ~ResponseOk(st) /\ frame[p].response.body.valid
                /\ st \notin DOMAIN table)
               => outcome[p] = Raise(ErrorClassFor(st), StatusCodeOf(ErrorClassFor(st)),
                                     RawPayload(frame[p].response.body.json))

\* C19: is_rate_limited is true exactly when a limiter is installed, which
\* is exactly when a rate limit was set; the limiter never holds more than
\* its rate, and a client without a rate limit never waits for capacity nor
\* acquires anything.
C19_RateLimitedIffLimiter ==
  /\ is_rate_limited <=> limiter.installed
  /\ limiter.installed <=> (rate_limit # 0)
  /\ limiter.installed => limiter.level <= limiter.max_rate
  /\ ~is_rate_limited =>
       \A p \in Coroutines : pc[p] # "acquire" /\ frame[p].acquired = 0

C19_Witness ==
  \E p, q \in Coroutines :
    /\ rate_limit = 0
    /\ ~is_rate_limited
    /\ p # q
    /\ Sent(p) /\ frame[p].acquired = 0
    /\ Answered(q) /\ frame[q].acquired = 0

\* C20: a failure response with a JSON body and an error schema registered
\* for its status always raises the class mapped to the status, carrying the
\* body parsed into the schema when it conforms and the raw body when it
\* does not.
C20_ErrorSchemaIsAttempt ==
  \A p \in Coroutines :
    (Answered(p) /\ ~ResponseOk(frame[p].response.status)
       /\ frame[p].response.body.valid
       /\ frame[p].response.status \in DOMAIN frame[p].table)
      => LET st == frame[p].response.status
             doc == frame[p].response.body.json
         IN  /\ outcome[p].kind = "raise"
             /\ outcome[p].class = ErrorClassFor(st)
             /\ outcome[p].payload =
                  IF Validates(doc)
                    THEN ModelPayload(frame[p].table[st], doc, <<>>)
                    ELSE RawPayload(doc)

\* C21: every key assigned into client.parameters before a request is in
\* the parameters that request sends, with the value assigned, unless the
\* request's own parameters name the key, whose value is then sent.
C21_DefaultsReadAtRequest ==
  \A p \in Coroutines :
    Sent(p) =>
      LET W == frame[p].written_before
          O == Given(frame[p].args.parameters)
          M == frame[p].sent.params
      IN  \A k \in DOMAIN W :
            /\ k \in DOMAIN M
            /\ M[k] = IF k \in DOMAIN O THEN O[k] ELSE W[k]

\* a and b written after construction, b overridden by the request
C21_Witness ==
  \E p \in Coroutines :
    /\ Sent(p)
    /\ frame[p].written_before = [k \in {"a", "b"} |-> 2]
    /\ frame[p].args.parameters = Some([k \in {"b"} |-> 3])
    /\ frame[p].sent.params = [k \in {"a", "b"} |-> IF k = "a" THEN 2 ELSE 3]

\* The caller passed none of headers, cookies, parameters, error_responses.
NoOverrides(p) ==
  /\ frame[p].args.headers = None
  /\ frame[p].args.cookies = None
  /\ frame[p].args.parameters = None
  /\ frame[p].args.error_responses = None

\* C22: no step of any request changes client.headers, client.cookies,
\* client.parameters or client.error_responses, and a request without
\* overrides sends exactly the client's headers, cookies and parameters and
\* uses the client's error table.
C22_OverridesLeaveClient ==
  /\ [][/\ headers' = headers
        /\ cookies' = cookies
        /\ parameters' = parameters
        /\ error_responses' = error_responses]_vars
  /\ [](\A p \in Coroutines :
          (Sent(p) /\ NoOverrides(p))
            => /\ frame[p].sent.headers = headers
               /\ frame[p].sent.cookies = cookies
               /\ frame[p].sent.params = parameters
               /\ frame[p].table = error_responses)

\* one request with every override has been answered, another without any
\* has been sent with the defaults the client was constructed with
C22_Witness ==
  \E p, q \in Coroutines :
    /\ Answered(p)
    /\ frame[p].args.headers # None /\ frame[p].args.cookies # None
    /\ frame[p].args.parameters # None /\ frame[p].args.error_responses # None
    /\ Sent(q) /\ NoOverrides(q)
    /\ frame[q].sent.headers = FullDefaults
    /\ frame[q].sent.params = FullDefaults
    /\ parameters = FullDefaults

\* C23: a request operation that begins on a closed client takes nothing
\* from the rate limiter, makes no call on the session and opens no file
\* handle.
C23_ClosedRequestNoEffect ==
  \A p \in Coroutines :
    (frame[p].op \in RequestOps /\ frame[p].started_closed)
      => /\ frame[p].acquired = 0
         /\ frame[p].calls = 0
         /\ frame[p].sent = NoCall
         /\ ~frame[p].file_opened

\* The call path with exactly one '/' put in front when it is not empty and
\* has none.
WithLeadingSlash(path) ==
  IF path = <<>> THEN <<>>
  ELSE IF path[1] = Slash THEN path
  ELSE <<Slash>> \o path

\* C24: the path a request sends is the client's base path followed by the
\* call path with its leading '/': uri_path + path when both are non-empty,
\* uri_path alone for an empty call path, the call path alone without a base
\* path, empty when both are empty; 'x' and '/x' send the same path.
C24_FullPath ==
  /\ \A p \in Coroutines :
        Sent(p) =>
          LET given == frame[p].given.path
              sent  == frame[p].sent.path
          IN  /\ (uri_path # <<>> /\ given # <<>>)
                    => sent = uri_path \o WithLeadingSlash(given)
              /\ (uri_path # <<>> /\ given = <<>>) => sent = uri_path
              /\ (uri_path = <<>> /\ given # <<>>)
                    => sent = WithLeadingSlash(given)
              /\ (uri_path = <<>> /\ given = <<>>) => sent = <<>>
  /\ \A p, q \in Coroutines :
        (/\ Sent(p) /\ Sent(q)
         /\ frame[p].given.path # <<>>
         /\ frame[p].given.path[1] # Slash
         /\ frame[q].given.path = <<Slash>> \o frame[p].given.path)
          => frame[p].sent.path = frame[q].sent.path

\* 'x' and '/x' have both been sent by a client with base path '/v'
C24_Witness ==
  \E p, q \in Coroutines :
    /\ Sent(p) /\ Sent(q)
    /\ uri_path = <<Slash, "v">>
    /\ frame[p].given.path = <<"x">>
    /\ frame[q].given.path = <<Slash, "x">>
    /\ frame[p].sent.path = <<Slash, "v", Slash, "x">>
    /\ frame[q].sent.path = <<Slash, "v", Slash, "x">>

\* The wrapper has handed an outcome to its caller.
RetryDone == retry.state = "done"
LastInvocation == retry.history[Len(retry.history)]

\* C25: what the wrapper hands to its caller is never a RateLimitException:
\* it is the outcome of the last invocation of the wrapped function, every
\* invocation before it raised RateLimitException and was followed by a
\* sleep of its period_remaining, and an invocation that returns or raises
\* another exception is the last.
C25_RetryOnlyOnRateLimit ==
  /\ Len(retry.slept) <= Len(retry.history)
  /\ \A i \in 1..Len(retry.history) :
        /\ (i < Len(retry.history) \/ retry.state \in {"sleeping", "calling"})
              => retry.history[i].class = "RateLimitException"
        /\ i <= Len(retry.slept) => retry.slept[i] = retry.history[i].period
  /\ retry.state = "calling" => Len(retry.slept) = Len(retry.history)
  /\ RetryDone =>
        /\ retry.history # <<>>
        /\ retry.result = LastInvocation
        /\ retry.result.class # "RateLimitException"
        /\ Len(retry.slept) = Len(retry.history) - 1

\* two RateLimitExceptions, two sleeps of their periods, then another
\* exception reaches the caller
C25_Witness ==
  /\ RetryDone
  /\ retry.history = <<Raised("RateLimitException", 2),
                       Raised("RateLimitException", 1),
                       Raised("ConnectionError", 0)>>
  /\ retry.slept = <<2, 1>>
  /\ retry.result = Raised("ConnectionError", 0)

\* C26: a call of the wrapper whose function raises RateLimitException at
\* most MaxRaises times in a row ends, with the outcome of an invocation
\* of the function that the limiter let through.
C26_RateLimitedCallProceeds ==
  (retry.state \in {"calling", "sleeping"})
    ~> (/\ RetryDone
        /\ retry.history # <<>>
        /\ retry.result = LastInvocation
        /\ retry.result.class # "RateLimitException")

\* the function was refused MaxRaises times and its next invocation returned
C26_Witness ==
  /\ RetryDone
  /\ Len(retry.slept) = MaxRaises
  /\ retry.result.kind = "return"
  /\ retry.result = LastInvocation

\* What the underlying method returns for the options the caller gave.
Underlying(c) ==
  IF c.method = "dict" THEN PydBaseModel_dict(c.instance, c.options)
  ELSE IF c.method = "json"
    THEN PydBaseModel_json(c.instance, c.options, {}, c.json_dumps)
  ELSE PydBaseModel_copy(c.instance, c.options)

\* C27: the result of BaseModel.dict, BaseModel.json and BaseModel.copy is
\* the result of the underlying model method called with the same options.
C27_WrappersPassThrough ==
  model_call.state = "done" => model_call.result = Underlying(model_call)

\* The classes an object of each class is an instance of.
InstanceOf ==
  [cls \in Types |->
     IF cls = "bool" THEN {"bool", "int", "object"}
     ELSE IF cls = "object" THEN {"object"}
     ELSE {cls, "object"}]

\* C28: validate_type returns True exactly when obj is an instance of the
\* target type, or of one of the types of a target list; otherwise it raises
\* ValidationError when err is true and returns False when it is not; it
\* never returns False with err true, and an empty list never validates.
C28_ValidateType ==
  validation.state = "done" =>
    LET ts == validation.target.types
        ok == \E i \in 1..Len(ts) : ts[i] \in InstanceOf[validation.obj]
    IN  /\ validation.result = "True" <=> ok
        /\ (~ok /\ validation.err) => validation.result = "ValidationError"
        /\ (~ok /\ ~validation.err) => validation.result = "False"
        /\ validation.err => validation.result # "False"
        /\ (validation.target.list /\ ts = <<>>) => validation.result # "True"

\* a bool validates against [str, int], by its base class int
C28_Witness ==
  /\ validation.state = "done"
  /\ validation.obj = "bool"
  /\ validation.target = ListOf(<<"str", "int">>)
  /\ validation.err
  /\ validation.result = "True"

\* The call of the class that made, or failed to make, the client.
ClassCalled(p) == frame[p].op = "ClientInit"

\* C29: the class's __init__ is called with exactly the eight configuration
\* keywords, each the caller's or MISSING; __post_init__, when the object has
\* one, is called once, after __init__, with the positional and keyword
\* arguments of the call, and is the only other call; a base address given
\* as the positional argument makes a client with that address.
C29_ClientInitCall ==
  \A p \in Coroutines :
    ClassCalled(p) =>
      LET g == frame[p].given
          t == frame[p].trace
      IN  /\ Len(t) >= 1
          /\ t[1].fn = "__init__"
          /\ DOMAIN t[1].kwargs = ConfigOptions
          /\ \A n \in ConfigOptions :
                t[1].kwargs[n] = IF g.kwargs[n] = None THEN MISSING
                                 ELSE g.kwargs[n]
          /\ IF init = "built" /\ g.cls.has_post_init
                THEN /\ Len(t) = 2
                     /\ t[2].fn = "__post_init__"
                     /\ t[2].args = g.args
                     /\ t[2].kwargs = g.kwargs
                ELSE Len(t) = 1
          /\ (g.args # <<>> /\ g.kwargs.uri = None /\ g.cls.uri = None)
                => /\ init = "built"
                   /\ uri = Some(g.args[1])

====
